---- MODULE Spec2Model ----
(***************************************************************************)
(* Model of delete_all_documents.py: the startup checks, the main loop     *)
(* (query with retry, give-up test, diff, settle wait, dispatch through a  *)
(* ThreadPoolExecutor, union into already_deleted, report) and the pool    *)
(* workers running delete_task.                                            *)
(*                                                                         *)
(* pc is the position of the control thread:                               *)
(*   STARTUP            lines 46-57                                        *)
(*   POLLING            line 106, about to call discovery.query            *)
(*   RETRY_WAIT         lines 115-116, inside the except clause            *)
(*   DIFFING            line 123, past the give-up test                    *)
(*   INDEX_SETTLE_WAIT  lines 136-137                                      *)
(*   DISPATCHING        line 143, about to call executor.map               *)
(*   UNION              line 145, executor.map has returned                *)
(*   REPORT             lines 146-147, iterating delete_results            *)
(*   UNWIND             an exception is leaving the with block             *)
(*   DONE               the while loop has ended (line 153 was executed)   *)
(*   ABORTED            sys.exit() of line 120                             *)
(*   CONFIG_EXIT        sys.exit() of lines 48, 53, 57                     *)
(*   CRASHED            uncaught exception, the interpreter has ended      *)
(***************************************************************************)
EXTENDS Integers, Sequences, FiniteSets, TLC

\* ---- bounds of the model -------------------------------------------------
\* number of distinct document identifiers the index can return
NumDocs == 3
\* largest matching_results value the index reports
MaxMatching == 1
\* longest result list of one query response
MaxResults == 2
\* size of the thread pool; the script sets 16 (line 80), the model uses a
\* pool smaller than the largest batch so that futures do queue up
max_threads == 1

\* ---- program constants ---------------------------------------------------
max_tries == 5

DocIds == 1..NumDocs

VARIABLES
    pc,                 \* position of the control thread
    argv_ok,            \* len(sys.argv) >= 3
    wd_url_set,         \* os.environ.get('WD_URL') is not None
    wd_token_set,       \* os.environ.get('WD_TOKEN') is not None
    exit_code,          \* "none" while running, else the process exit status
    keep_deleting,      \* line 84
    how_many_tries,     \* loop variable of line 104
    matched_documents,  \* last query response: matching_results, results
    diff,               \* line 129
    already_deleted,    \* line 100
    order,              \* the order in which executor.map walked diff
    futures,            \* state of the future of each identifier of the batch
    next_result,        \* position of the delete_results iterator
    sent,               \* per identifier, number of delete requests sent
    failed_tries,       \* number of failed query attempts in this round
    poll_ok,            \* the query of this round has returned a response
    short_waits,        \* number of time.sleep(1) calls completed in this round
    batches,            \* the batches handed to executor.map, in order
    drained             \* the index has become empty (environment)

vars == <<pc, argv_ok, wd_url_set, wd_token_set, exit_code, keep_deleting,
          how_many_tries, matched_documents, diff, already_deleted, order,
          futures, next_result, sent, failed_tries, poll_ok, short_waits,
          batches, drained>>

ctl == <<argv_ok, wd_url_set, wd_token_set>>
pool == <<order, futures, next_result>>
round == <<how_many_tries, failed_tries, poll_ok, short_waits>>

\* ---- helpers -------------------------------------------------------------
Range(s) == {s[i] : i \in DOMAIN s}

BoundedSeq(S, n) == UNION {[1..k -> S] : k \in 0..n}

Perms(S) == {f \in [1..Cardinality(S) -> S] : \A i, j \in 1..Cardinality(S) : f[i] = f[j] => i = j}

UnionOf(bs) == UNION {bs[i] : i \in DOMAIN bs}

NoFutures == [d \in DocIds |-> "idle"]

Running == {d \in DocIds : futures[d] = "running"}

Sent == {d \in DocIds : sent[d] > 0}

\* the responses the index can give: a count and a list of records
QueryResults == {r \in [matching_results : 0..MaxMatching, results : BoundedSeq(DocIds, MaxResults)] :
                    r.matching_results = 0 => r.results = <<>>}

NoResponse == [matching_results |-> -1, results |-> <<>>]

\* ---- pure parts of the main loop ----------------------------------------
\* line 118: if how_many_tries == max_tries - 1
GiveUp_never(h) == h = max_tries
GiveUp(h) == h = max_tries - 1

\* line 104: range(max_tries) has a value after h
HasNextTry(h) == h + 1 < max_tries

\* line 123: if matched_documents['matching_results'] > 0
HasDocuments_by_list(md) == md.results # <<>>
HasDocuments(md) == md.matching_results > 0

\* line 125: docids = [ r['document_id'] for r in results ]
DocidsOf(md) == md.results

\* line 129: diff=set(docids).difference(already_deleted)
Diff_no_difference(docids, ad) == Range(docids)
Diff(docids, ad) == Range(docids) \ ad

\* line 132: if len(diff) == 0
NothingToDo_never(d) == FALSE
NothingToDo(d) == Cardinality(d) = 0

\* line 145: already_deleted = already_deleted.union(diff)
UnionBatch_replace(ad, d) == d
UnionBatch_ok_only(ad, d) == ad \cup {x \in d : futures[x] = "ok"}
UnionBatch(ad, d) == ad \cup d

\* lines 146-147: the delete_results iterator has yielded every result, so
\* the for loop over it ends
AllYielded_no_wait(n, ord) == TRUE
AllYielded(n, ord) == n > Len(ord)

\* line 141: the executor is dropped at the end of the with block; a future
\* that is done goes with it
ClearDone(f) == [d \in DocIds |-> IF f[d] \in {"ok", "fail", "cancelled"} THEN "idle" ELSE f[d]]

\* line 141: ThreadPoolExecutor(max_workers = max_threads): a worker thread
\* is free when fewer than max_threads calls are running
WorkerFree_unbounded(n) == TRUE
WorkerFree(n) == n < max_threads

\* line 102: while keep_deleting
WhileTest_forever(k) == TRUE
WhileTest(k) == k

\* where the control thread is after the end of one pass of the loop body
LoopNext(k) == IF WhileTest(k) THEN "POLLING" ELSE "DONE"

\* ---- initial state -------------------------------------------------------
Init ==
    /\ pc = "STARTUP"
    /\ argv_ok \in BOOLEAN
    /\ wd_url_set \in BOOLEAN
    /\ wd_token_set \in BOOLEAN
    /\ exit_code = "none"
    /\ keep_deleting = TRUE
    /\ how_many_tries = 0
    /\ matched_documents = NoResponse
    /\ diff = {}
    /\ already_deleted = {}
    /\ order = <<>>
    /\ futures = NoFutures
    /\ next_result = 1
    /\ sent = [d \in DocIds |-> 0]
    /\ failed_tries = 0
    /\ poll_ok = FALSE
    /\ short_waits = 0
    /\ batches = <<>>
    /\ drained = FALSE

\* ---- control thread ------------------------------------------------------
\* lines 46-100: startup checks, client construction, already_deleted = set([])
Startup ==
    /\ pc = "STARTUP"
    /\ IF argv_ok /\ wd_url_set /\ wd_token_set
         THEN /\ pc' = LoopNext(keep_deleting)
              /\ exit_code' = exit_code
         ELSE /\ pc' = "CONFIG_EXIT"
              /\ exit_code' = "0"
    /\ UNCHANGED <<ctl, keep_deleting, round, matched_documents, diff,
                   already_deleted, pool, sent, batches, drained>>

\* lines 106-113 and 118-120: the query returns a response, break, give-up test
QueryOk(r) ==
    /\ pc = "POLLING"
    /\ drained => r.matching_results = 0
    /\ matched_documents' = r
    /\ poll_ok' = TRUE
    /\ IF GiveUp(how_many_tries)
         THEN pc' = "ABORTED" /\ exit_code' = "0"
         ELSE pc' = "DIFFING" /\ exit_code' = exit_code
    /\ UNCHANGED <<ctl, keep_deleting, how_many_tries, failed_tries, short_waits,
                   diff, already_deleted, pool, sent, batches, drained>>

\* lines 106-115: the query raises, the except clause prints
QueryFail ==
    /\ pc = "POLLING"
    /\ failed_tries' = failed_tries + 1
    /\ pc' = "RETRY_WAIT"
    /\ UNCHANGED <<ctl, exit_code, keep_deleting, how_many_tries, poll_ok,
                   short_waits, matched_documents, diff, already_deleted, pool,
                   sent, batches, drained>>

\* lines 116, 104 and 118-120: time.sleep(1), next value of the range or the
\* end of the for loop followed by the give-up test
RetrySleep ==
    /\ pc = "RETRY_WAIT"
    /\ short_waits' = short_waits + 1
    /\ IF HasNextTry(how_many_tries)
         THEN /\ how_many_tries' = how_many_tries + 1
              /\ pc' = "POLLING"
              /\ exit_code' = exit_code
         ELSE /\ how_many_tries' = how_many_tries
              /\ IF GiveUp(how_many_tries)
                   THEN pc' = "ABORTED" /\ exit_code' = "0"
                   ELSE pc' = "DIFFING" /\ exit_code' = exit_code
    /\ UNCHANGED <<ctl, keep_deleting, failed_tries, poll_ok,
                   matched_documents, diff, already_deleted, pool, sent,
                   batches, drained>>

\* lines 123-132 and 150-153: the matching_results test, the diff, the
\* len(diff) test; the else branch ends the loop
Diffing ==
    /\ pc = "DIFFING"
    /\ IF HasDocuments(matched_documents)
         THEN /\ diff' = Diff(DocidsOf(matched_documents), already_deleted)
              /\ pc' = IF NothingToDo(diff') THEN "INDEX_SETTLE_WAIT" ELSE "DISPATCHING"
              /\ UNCHANGED <<keep_deleting, exit_code>>
         ELSE /\ keep_deleting' = FALSE
              /\ pc' = LoopNext(FALSE)
              /\ exit_code' = IF pc' = "DONE" THEN "0" ELSE exit_code
              /\ diff' = diff
    /\ UNCHANGED <<ctl, round, matched_documents, already_deleted, pool, sent,
                   batches, drained>>

\* lines 136-137 and 102-104: time.sleep(30), next pass of the while loop
SettleWait ==
    /\ pc = "INDEX_SETTLE_WAIT"
    /\ pc' = LoopNext(keep_deleting)
    /\ how_many_tries' = 0
    /\ failed_tries' = 0
    /\ poll_ok' = FALSE
    /\ short_waits' = 0
    /\ UNCHANGED <<ctl, exit_code, keep_deleting, matched_documents, diff,
                   already_deleted, pool, sent, batches, drained>>

\* lines 141-143: executor.map submits one future per element of diff, in the
\* iteration order of the set
Submit(ord) ==
    /\ pc = "DISPATCHING"
    /\ ord \in Perms(diff)
    /\ order' = ord
    /\ futures' = [d \in DocIds |-> IF d \in diff THEN "queued" ELSE "idle"]
    /\ next_result' = 1
    /\ batches' = Append(batches, diff)
    /\ pc' = "UNION"
    /\ UNCHANGED <<ctl, exit_code, keep_deleting, round, matched_documents, diff,
                   already_deleted, sent, drained>>

\* line 145
Union ==
    /\ pc = "UNION"
    /\ already_deleted' = UnionBatch(already_deleted, diff)
    /\ pc' = "REPORT"
    /\ UNCHANGED <<ctl, exit_code, keep_deleting, round, matched_documents, diff,
                   pool, sent, batches, drained>>

\* lines 146-147: the iterator yields the result of the next future
ReportNext ==
    /\ pc = "REPORT"
    /\ next_result <= Len(order)
    /\ futures[order[next_result]] = "ok"
    /\ next_result' = next_result + 1
    /\ UNCHANGED <<pc, ctl, exit_code, keep_deleting, round, matched_documents,
                   diff, already_deleted, order, futures, sent, batches, drained>>

\* line 146: the next future holds an exception; the iterator re-raises it in
\* the control thread and cancels the futures it has not yielded
ReportRaise ==
    /\ pc = "REPORT"
    /\ next_result <= Len(order)
    /\ futures[order[next_result]] = "fail"
    /\ futures' = [d \in DocIds |-> IF futures[d] = "queued" THEN "cancelled" ELSE futures[d]]
    /\ pc' = "UNWIND"
    /\ UNCHANGED <<ctl, exit_code, keep_deleting, round, matched_documents, diff,
                   already_deleted, order, next_result, sent, batches, drained>>

\* lines 141, 149 and 102-104: the iterator is exhausted, the with block
\* ends, the count is printed, next pass of the while loop
PoolExit ==
    /\ pc = "REPORT"
    /\ AllYielded(next_result, order)
    /\ pc' = LoopNext(keep_deleting)
    /\ order' = <<>>
    /\ futures' = ClearDone(futures)
    /\ next_result' = 1
    /\ how_many_tries' = 0
    /\ failed_tries' = 0
    /\ poll_ok' = FALSE
    /\ short_waits' = 0
    /\ UNCHANGED <<ctl, exit_code, keep_deleting, matched_documents, diff,
                   already_deleted, sent, batches, drained>>

\* line 141: the with block waits for the running workers (shutdown(wait=True)),
\* then the exception leaves the while loop and ends the process
Unwind ==
    /\ pc = "UNWIND"
    /\ Running = {}
    /\ pc' = "CRASHED"
    /\ exit_code' = "1"
    /\ UNCHANGED <<ctl, keep_deleting, round, matched_documents, diff,
                   already_deleted, pool, sent, batches, drained>>

\* ---- pool workers --------------------------------------------------------
\* a free worker takes the oldest queued future and calls delete_task:
\* lines 88-94, the delete request is sent
WorkerStart ==
    /\ WorkerFree(Cardinality(Running))
    /\ \E i \in DOMAIN order :
         /\ futures[order[i]] = "queued"
         /\ \A j \in 1..(i - 1) : futures[order[j]] # "queued"
         /\ futures' = [futures EXCEPT ![order[i]] = "running"]
         /\ sent' = [sent EXCEPT ![order[i]] = @ + 1]
    /\ UNCHANGED <<pc, ctl, exit_code, keep_deleting, round, matched_documents,
                   diff, already_deleted, order, next_result, batches, drained>>

\* lines 94-95, changed: the worker records its own identifier in
\* already_deleted when its request has returned
WorkerFinish_marks(d, res) ==
    /\ futures[d] = "running"
    /\ futures' = [futures EXCEPT ![d] = res]
    /\ already_deleted' = already_deleted \cup {d}
    /\ UNCHANGED <<pc, ctl, exit_code, keep_deleting, round, matched_documents,
                   diff, order, next_result, sent, batches, drained>>

\* lines 94-95: the delete request returns a response (get_result) or raises
WorkerFinish(d, res) ==
    /\ futures[d] = "running"
    /\ futures' = [futures EXCEPT ![d] = res]
    /\ UNCHANGED <<pc, ctl, exit_code, keep_deleting, round, matched_documents,
                   diff, already_deleted, order, next_result, sent, batches, drained>>

\* ---- environment ---------------------------------------------------------
\* the index has caught up with the deletes: from now on it reports 0 matches.
\* Only a query observes the index, so the step is taken right before one.
Drain ==
    /\ pc = "POLLING"
    /\ ~drained
    /\ drained' = TRUE
    /\ UNCHANGED <<pc, ctl, exit_code, keep_deleting, round, matched_documents,
                   diff, already_deleted, pool, sent, batches>>

Control ==
    \/ Startup
    \/ \E r \in QueryResults : QueryOk(r)
    \/ QueryFail
    \/ RetrySleep
    \/ Diffing
    \/ SettleWait
    \/ \E ord \in Perms(diff) : Submit(ord)
    \/ Union
    \/ ReportNext
    \/ ReportRaise
    \/ PoolExit
    \/ Unwind

Workers ==
    \/ WorkerStart
    \/ \E d \in DocIds, res \in {"ok", "fail"} : WorkerFinish(d, res)

Next == Control \/ Workers \/ Drain

Spec == Init /\ [][Next]_vars

\* the interpreter runs the control thread and the pool workers as long as
\* they can take a step
FairSpec == Spec /\ WF_vars(Control) /\ WF_vars(Workers)

TypeOK ==
    /\ pc \in {"STARTUP", "POLLING", "RETRY_WAIT", "DIFFING", "INDEX_SETTLE_WAIT",
               "DISPATCHING", "UNION", "REPORT", "UNWIND", "DONE", "ABORTED",
               "CONFIG_EXIT", "CRASHED"}
    /\ how_many_tries \in 0..(max_tries - 1)
    /\ failed_tries \in 0..max_tries
    /\ short_waits \in 0..max_tries
    /\ matched_documents \in QueryResults \cup {NoResponse}
    /\ diff \subseteq DocIds
    /\ already_deleted \subseteq DocIds
    /\ futures \in [DocIds -> {"idle", "queued", "running", "ok", "fail", "cancelled"}]
    /\ exit_code \in {"none", "0", "1"}

\* ---- properties ----------------------------------------------------------

\* C1: if the index eventually reports 0 matches, the controller reaches DONE
\* after finitely many iterations (a round of max_tries failed queries, which
\* is allowed to abort, set aside).
C1_Termination == <>drained => <>(pc = "DONE" \/ failed_tries = max_tries)

\* C2: a query that succeeds after k < max_tries failed attempts of the same
\* round leads to DIFFING; ABORTED is reached only when max_tries attempts of
\* the round have failed.
C2_AbortOnlyAfterMaxTries == pc = "ABORTED" => (failed_tries = max_tries /\ ~poll_ok)

\* C3: after max_tries failed queries in one round the controller aborts
\* without reaching DIFFING: the round has no response, no batch was handed
\* to the pool and no delete request is running.
C3_RetryExhaustion ==
    failed_tries = max_tries =>
        /\ pc \in {"RETRY_WAIT", "ABORTED"}
        /\ ~poll_ok
        /\ futures = NoFutures

C3_Witness == pc = "ABORTED" /\ failed_tries = max_tries

\* C4: whatever the outcome of each delete, when the control thread leaves the
\* dispatch of a batch it is back at POLLING with the whole batch in
\* already_deleted.
C4_BatchReturnsToPolling ==
    [][(pc \in {"REPORT", "UNWIND"} /\ pc' \notin {"REPORT", "UNWIND"})
          => (pc' = "POLLING" /\ diff \subseteq already_deleted')]_vars

\* C5: an identifier of already_deleted is never in the batch being
\* dispatched, and no identifier receives more than one delete request in a run.
C5_NoRedundantDispatch ==
    /\ \A d \in DocIds : sent[d] <= 1
    /\ pc \in {"DISPATCHING", "UNION"} => diff \cap already_deleted = {}

C5_Witness ==
    /\ pc = "DISPATCHING"
    /\ Range(matched_documents.results) \cap already_deleted # {}

\* C6: DONE is reached only from a query of this round that returned a
\* response with matching_results = 0.
C6_DoneOnlyOnZero ==
    pc = "DONE" => (poll_ok /\ matched_documents.matching_results = 0)

C6_Witness == pc = "DONE" /\ already_deleted # {}

\* C7: a response with matching_results > 0 whose identifiers are all in
\* already_deleted leads to INDEX_SETTLE_WAIT and from there to POLLING, with
\* no delete request sent and already_deleted unchanged.
C7_SettleWait ==
    [][/\ (/\ pc = "DIFFING"
           /\ matched_documents.matching_results > 0
           /\ Range(matched_documents.results) \ already_deleted = {})
          => (/\ pc' = "INDEX_SETTLE_WAIT"
              /\ UNCHANGED <<sent, futures, already_deleted>>)
       /\ pc = "INDEX_SETTLE_WAIT"
          => (/\ pc' = "POLLING"
              /\ UNCHANGED <<sent, futures, already_deleted>>)]_vars

C7_Witness == pc = "INDEX_SETTLE_WAIT" /\ already_deleted # {}

C9_DispatchUnion ==
    [][/\ already_deleted \subseteq already_deleted'
       /\ already_deleted' # already_deleted
          => (pc = "UNION" /\ already_deleted' = already_deleted \cup diff)
       /\ pc' # "UNION" => already_deleted' = UnionOf(batches')]_vars

C9_Witness == Len(batches) = 2 /\ pc = "UNWIND"

\* C10: once the loop has ended (DONE) or sys.exit() was called (ABORTED), no
\* query is made and no delete request is sent.
C10_Terminal ==
    [][(~keep_deleting \/ pc \in {"DONE", "ABORTED"})
          => UNCHANGED <<matched_documents, round, sent, futures>>]_vars

C10_Witness == pc = "DONE" /\ Sent # {}

\* C11: when a command-line argument, WD_URL or WD_TOKEN is missing, the
\* process ends at startup with a non-zero exit status, and no query and no
\* delete request is made.
C11_ConfigExit ==
    (~(argv_ok /\ wd_url_set /\ wd_token_set) /\ pc # "STARTUP") =>
        /\ pc = "CONFIG_EXIT"
        /\ exit_code = "1"
        /\ ~poll_ok /\ failed_tries = 0 /\ Sent = {}

\* C12: the next query is not started, and no diff is computed, while a
\* delete request of a batch is queued or running: outside the with block
\* of lines 141-147 the pool holds no unfinished future.
C12_Barrier ==
    pc \in {"POLLING", "RETRY_WAIT", "DIFFING", "INDEX_SETTLE_WAIT", "DISPATCHING",
            "DONE", "ABORTED", "CRASHED"}
        => \A d \in DocIds : futures[d] \notin {"queued", "running"}

C12_Witness == pc = "POLLING" /\ Len(batches) = 1 /\ Cardinality(already_deleted) = 2

C15_ExactlyOnePerIdentifier ==
    (pc = "CRASHED" \/ (pc = "REPORT" /\ next_result > Len(order)))
        => \A d \in diff : sent[d] = 1

\* C16: time.sleep(1) is reached only after a failed query whose count of
\* failures is still below max_tries, so a round that ends in ABORTED has
\* max_tries - 1 short waits.
C16_ShortWaits ==
    /\ pc = "RETRY_WAIT" => failed_tries < max_tries
    /\ pc = "ABORTED" => short_waits = max_tries - 1

\* C17: the retry counter starts at 0 in every pass of the while loop, so
\* failures of different rounds do not add up, and the run aborts only in a
\* round with max_tries failed queries.
C17_RetryCounterPerRound ==
    [][/\ (pc \notin {"POLLING", "RETRY_WAIT"} /\ pc' = "POLLING")
          => (how_many_tries' = 0 /\ failed_tries' = 0)
       /\ (pc # "ABORTED" /\ pc' = "ABORTED") => failed_tries' = max_tries]_vars

\* C18: a diff is computed and a batch dispatched only from the response of
\* the query of the same round; a delete request is sent only for an
\* identifier of that response, and already_deleted grows only by such
\* identifiers, so it stays within the identifiers the index has returned.
C18_FreshResultOnly ==
    [][/\ pc' \in {"DIFFING", "DISPATCHING", "UNION", "REPORT"} => poll_ok'
       /\ \A d \in DocIds :
            sent'[d] # sent[d] => (poll_ok /\ d \in Range(matched_documents.results))
       /\ already_deleted' # already_deleted
            => (/\ poll_ok
                /\ already_deleted' \subseteq
                     already_deleted \cup Range(matched_documents.results))]_vars

C18_Witness ==
    /\ pc = "DISPATCHING"
    /\ failed_tries > 0
    /\ already_deleted # {}
    /\ diff # Range(matched_documents.results)
====
